---- MODULE Spec2Model ----
(***************************************************************************)
(* Job queue and sequential worker of nodejsPdfServer (src/server.js).     *)
(*                                                                         *)
(* The jobs table lives in jobs.db and outlives the process; everything    *)
(* else (isProcessing, the pending setImmediate/setTimeout callbacks, the  *)
(* running async invocation of processNextJob) is in-memory state of one   *)
(* process run.  Every db.prepare(...).run/get call may throw, every       *)
(* awaited puppeteer call may reject.                                      *)
(***************************************************************************)
EXTENDS Integers, Sequences, FiniteSets, TLC

\* ------------------------------------------------------------------ bounds
MaxJobs == 2          \* rows the table may hold (accepted enqueues)
MaxClock == 1         \* largest value the wall clock reaches

\* ------------------------------------------------------- program constants
WAIT_AFTER_NETWORKIDLE == 180000
FALLBACK_WAIT_TIME == 120000
MAX_VIEWPORT_WIDTH == 10000
MAX_VIEWPORT_HEIGHT == 10000
DEFAULT_VIEWPORT_WIDTH == 1280
DEFAULT_VIEWPORT_HEIGHT == 720

\* SQL NULL / JS null; a value v that is set is held as <<v>>.
NULL == <<>>

\* ------------------------------------------------------------ URL parsing
\* A string is a sequence of one-character strings.
Alpha ==
    {"a","b","c","d","e","f","g","h","i","j","k","l","m",
     "n","o","p","q","r","s","t","u","v","w","x","y","z"}

Digit == {"0","1","2","3","4","5","6","7","8","9"}

SchemeChar == Alpha \cup Digit \cup {"+", "-", "."}

SpecialSchemes ==
    { <<"h","t","t","p">>, <<"h","t","t","p","s">>, <<"f","t","p">>,
      <<"w","s">>, <<"w","s","s">> }

RECURSIVE TrimLeft(_)
TrimLeft(s) ==
    IF s # <<>> /\ Head(s) = " " THEN TrimLeft(Tail(s)) ELSE s

RECURSIVE TrimRight(_)
TrimRight(s) ==
    IF s # <<>> /\ s[Len(s)] = " " THEN TrimRight(SubSeq(s, 1, Len(s) - 1)) ELSE s

\* Index of the first character that is not a scheme character, 0 if none.
RECURSIVE SchemeEnd(_, _)
SchemeEnd(s, i) ==
    IF i > Len(s) THEN 0
    ELSE IF s[i] \in SchemeChar THEN SchemeEnd(s, i + 1)
    ELSE i

RECURSIVE SkipSlashes(_)
SkipSlashes(s) ==
    IF s # <<>> /\ Head(s) \in {"/", "\\"} THEN SkipSlashes(Tail(s)) ELSE s

\* The host: the characters up to the first of / ? # or the end.
RECURSIVE HostOf(_)
HostOf(s) ==
    IF s = <<>> \/ Head(s) \in {"/", "?", "#"} THEN <<>>
    ELSE <<Head(s)>> \o HostOf(Tail(s))

\* A validation that only asks for some text.
URLParsesLax(url) == TrimRight(TrimLeft(url)) # <<>>

\* new URL(url) with no base: TRUE when it returns, FALSE when it throws.
URLParses(url) ==
    LET s == TrimRight(TrimLeft(url))
        e == IF s = <<>> THEN 0 ELSE SchemeEnd(s, 1)
    IN  /\ s # <<>>
        /\ s[1] \in Alpha
        /\ e > 1
        /\ s[e] = ":"
        /\ LET scheme == SubSeq(s, 1, e - 1)
               rest   == SubSeq(s, e + 1, Len(s))
               host   == HostOf(SkipSlashes(rest))
           IN  scheme \in SpecialSchemes =>
                   /\ host # <<>>
                   /\ \A k \in 1..Len(host) : host[k] # " "

\* Request bodies of POST /runPdf: url absent, or a string.
UrlExample == <<"h","t","t","p","s",":","/","/","e",".","c","o","m">>
UrlNotAUrl == <<"n","o","t"," ","a"," ","u","r","l">>
UrlNoHost  == <<"h","t","t","p",":","/","/">>
UrlRelative == <<"/","q","u","e","u","e">>

Bodies ==
    { [present |-> FALSE, url |-> <<>>] } \cup
    { [present |-> TRUE, url |-> u] :
        u \in { <<>>, UrlExample, UrlNotAUrl, UrlNoHost, UrlRelative } }

\* !url of line 298: undefined or the empty string.
UrlMissing(body) == ~body.present \/ body.url = <<>>

\* ---------------------------------------------------------------- parseInt
\* parseInt(string) with no radix: leading white space is skipped, a sign is
\* taken, a 0x or 0X prefix selects radix 16, and the longest prefix of digits
\* of the radix is the value; with no such digit the result is NaN.
HexLower == <<"0","1","2","3","4","5","6","7","8","9","a","b","c","d","e","f">>

HexUpper == <<"0","1","2","3","4","5","6","7","8","9","A","B","C","D","E","F">>

\* The value of character c as a digit of the radix, -1 when it is none.
DigitValue(c, radix) ==
    IF \E k \in 1..radix : HexLower[k] = c \/ HexUpper[k] = c
    THEN (CHOOSE k \in 1..radix : HexLower[k] = c \/ HexUpper[k] = c) - 1
    ELSE -1

\* The digits of the longest prefix of s that is made of digits of the radix.
RECURSIVE DigitPrefix(_, _)
DigitPrefix(s, radix) ==
    IF s = <<>> \/ DigitValue(Head(s), radix) < 0 THEN <<>>
    ELSE <<DigitValue(Head(s), radix)>> \o DigitPrefix(Tail(s), radix)

RECURSIVE DigitsValue(_, _)
DigitsValue(ds, radix) ==
    IF ds = <<>> THEN 0
    ELSE DigitsValue(SubSeq(ds, 1, Len(ds) - 1), radix) * radix + ds[Len(ds)]

NaN == [nan |-> TRUE, v |-> 0]

ParseInt(str) ==
    LET s      == TrimLeft(str)
        signed == s # <<>> /\ Head(s) \in {"+", "-"}
        sign   == IF s # <<>> /\ Head(s) = "-" THEN -1 ELSE 1
        body   == IF signed THEN Tail(s) ELSE s
        hex    == Len(body) >= 2 /\ body[1] = "0" /\ body[2] \in {"x", "X"}
        radix  == IF hex THEN 16 ELSE 10
        digits == DigitPrefix(IF hex THEN SubSeq(body, 3, Len(body)) ELSE body, radix)
    IN  IF digits = <<>> THEN NaN
        ELSE [nan |-> FALSE, v |-> sign * DigitsValue(digits, radix)]

\* The :id of GET /job/:id, as the router hands it over (decoded, not empty).
IdStrings ==
    { <<"1">>, <<"2">>, <<"9","9","9">>, <<"a","b","c">>, <<"1","a","b","c">>,
      <<" ","2">>, <<"0","x","2">>, <<"-","1">> }

\* parseInt(req.params.id) for each of the id strings.
ParsedId == [id \in IdStrings |-> ParseInt(id)]


\* ------------------------------------------------------------------ state
VARIABLES
    proc,          \* "down" | "up": whether a node process is running
    mode,          \* what this process run does with an unhandled rejection
    columns,       \* optional columns the jobs table has
    jobs,          \* the jobs table, in id order
    isProcessing,  \* the worker's busy flag
    ex,            \* the suspended invocations of processNextJob, by job id
    immediates,    \* pending setImmediate(processNextJob) callbacks
    timers,        \* pending setTimeout(processNextJob, 5000) callbacks
    now,           \* the wall clock
    resp,          \* the HTTP response sent in the last step, if any
    audit,         \* per job: executor invocations, results written, outcome
    escaped,       \* the last step left processNextJob as a rejected promise
    faulted,       \* a store call of the worker threw out of processNextJob
                   \* in this process run
    stale,         \* the ids of the rows that were Running when this run began
    accepted       \* the enqueues this process run has accepted

vars == <<proc, mode, columns, jobs, isProcessing, ex, immediates, timers,
          now, resp, audit, escaped, faulted, stale, accepted>>

NoExec == [j \in {} |-> NULL]

\* rows: the job rows a response body carries (jobs of /queue, job of /job/:id).
NoResp ==
    [route |-> "none", status |-> 0, jobId |-> NULL, error |-> NULL, rows |-> <<>>]

Ids == 1..Len(jobs)

IsWaiting(j)  == j \in Ids /\ jobs[j].state = "Waiting"
IsRunning(j)  == j \in Ids /\ jobs[j].state = "Running"
IsExecuted(j) == j \in Ids /\ jobs[j].state = "Executed"

\* new Date(): the clock does not go back between two reads.
ClockAfter(t) == {t} \cup (IF t < MaxClock THEN {t + 1} ELSE {})

ClockReads == ClockAfter(now)

Init ==
    /\ proc = "down"
    /\ mode = "unset"
    /\ columns = {}
    /\ jobs = <<>>
    /\ isProcessing = FALSE
    /\ ex = NoExec
    /\ immediates = 0
    /\ timers = 0
    /\ now = 0
    /\ resp = NoResp
    /\ audit = <<>>
    /\ escaped = FALSE
    /\ faulted = FALSE
    /\ stale = {}
    /\ accepted = 0


\* ------------------------------------------------------------- job store
\* An id that is the highest id in use instead of the one after it.
AutoIncrementStale == IF jobs = <<>> THEN 1 ELSE jobs[Len(jobs)].id

\* INSERT INTO jobs (url, state, requestedAt): AUTOINCREMENT id, startedAt and
\* finishedAt NULL, error NULL, success DEFAULT 0.
AutoIncrement == IF jobs = <<>> THEN 1 ELSE jobs[Len(jobs)].id + 1

\* An INSERT that also stamps startedAt.
NewRowStarted(url, t) ==
    [id |-> AutoIncrement, url |-> url, state |-> "Waiting",
     requestedAt |-> <<t>>, startedAt |-> <<t>>, finishedAt |-> NULL,
     success |-> 0, error |-> NULL]

NewRow(url, t) ==
    [id |-> AutoIncrement, url |-> url, state |-> "Waiting",
     requestedAt |-> <<t>>, startedAt |-> NULL, finishedAt |-> NULL,
     success |-> 0, error |-> NULL]

\* The same SELECT with ORDER BY id DESC.
NextWaitingLast ==
    IF \E j \in Ids : IsWaiting(j)
    THEN CHOOSE j \in Ids : IsWaiting(j) /\ \A k \in Ids : IsWaiting(k) => k <= j
    ELSE 0

\* The same SELECT with WHERE state != 'Running'.
NextWaitingAny ==
    IF \E j \in Ids : ~IsRunning(j)
    THEN CHOOSE j \in Ids : ~IsRunning(j) /\ \A k \in Ids : ~IsRunning(k) => j <= k
    ELSE 0

\* The same SELECT with WHERE state != 'Executed': it resumes Running rows.
NextUnfinished ==
    IF \E j \in Ids : ~IsExecuted(j)
    THEN CHOOSE j \in Ids : ~IsExecuted(j) /\ \A k \in Ids : ~IsExecuted(k) => j <= k
    ELSE 0

\* SELECT * FROM jobs WHERE state = 'Waiting' ORDER BY id ASC LIMIT 1
\* (0 stands for the undefined that .get returns when no row matches).
NextWaiting ==
    IF \E j \in Ids : IsWaiting(j)
    THEN CHOOSE j \in Ids : IsWaiting(j) /\ \A k \in Ids : IsWaiting(k) => j <= k
    ELSE 0

\* A claim that sets startedAt only.
ClaimRowStampOnly(row, t) == [row EXCEPT !.startedAt = <<t>>]

\* A claim that sets the state only.
ClaimRowUnstamped(row, t) == [row EXCEPT !.state = "Running"]

\* UPDATE jobs SET state = 'Running', startedAt = ? WHERE id = ?
ClaimRow(row, t) == [row EXCEPT !.state = "Running", !.startedAt = <<t>>]

\* A success write that takes finishedAt from the row's requestedAt.
SuccessRowStale(row, t) ==
    [row EXCEPT !.state = "Executed", !.finishedAt = row.requestedAt, !.success = 1]

\* UPDATE jobs SET state = 'Executed', finishedAt = ?, success = 1 WHERE id = ?
SuccessRow(row, t) ==
    [row EXCEPT !.state = "Executed", !.finishedAt = <<t>>, !.success = 1]

\* `${error.message}\n\nStack trace:\n${error.stack}`
ErrorText(msg) == <<msg, "\n\nStack trace:\n", "Error: ", msg, "\n    at ...">>

\* A failure write that puts the job back in the queue.
FailureRowRequeue(row, t, msg) ==
    [row EXCEPT !.state = "Waiting", !.finishedAt = <<t>>, !.success = 0,
                !.error = ErrorText(msg)]

\* A failure write that stamps requestedAt instead of finishedAt.
FailureRowRestamp(row, t, msg) ==
    [row EXCEPT !.state = "Executed", !.requestedAt = <<t>>, !.finishedAt = <<t>>,
                !.success = 0, !.error = ErrorText(msg)]

\* A failure write that flags the job as a success.
FailureRowFlagged(row, t, msg) ==
    [row EXCEPT !.state = "Executed", !.finishedAt = <<t>>, !.success = 1,
                !.error = ErrorText(msg)]

\* UPDATE jobs SET state = 'Executed', finishedAt = ?, success = 0, error = ?
FailureRow(row, t, msg) ==
    [row EXCEPT !.state = "Executed", !.finishedAt = <<t>>, !.success = 0,
                !.error = ErrorText(msg)]

\* --------------------------------------------------------- process model
\* What is left of the in-memory state once the code of one event-loop turn
\* has run: `rejects` says that the turn left a rejected promise nobody
\* handles.  Node 15+ turns that into an uncaught exception and the process
\* exits ("throw"); Node 14 and --unhandled-rejections=warn only print a
\* warning ("warn").  Which of the two a process run does is fixed the first
\* time it matters in that run.
RejectionModes == IF mode = "unset" THEN {"warn", "throw"} ELSE {mode}

\* The process exits: its in-memory state is gone, jobs.db stays.
Exit ==
    /\ proc' = "down"
    /\ mode' = "unset"
    /\ isProcessing' = FALSE
    /\ ex' = NoExec
    /\ immediates' = 0
    /\ timers' = 0
    /\ faulted' = FALSE
    /\ stale' = {}
    /\ accepted' = 0

Settle(rejects, busy, execs, imm, tmr) ==
    /\ escaped' = rejects
    /\ \E m \in (IF rejects THEN RejectionModes ELSE {mode}) :
         IF rejects /\ m = "throw"
         THEN Exit
         ELSE /\ proc' = "up"
              /\ mode' = m
              /\ isProcessing' = busy
              /\ ex' = execs
              /\ immediates' = imm
              /\ timers' = tmr
              /\ faulted' = (faulted \/ rejects)
              /\ stale' = (IF proc = "down"
                           THEN {j \in Ids : jobs[j].state = "Running"}
                           ELSE stale)
              /\ accepted' = accepted

\* The invocation of processNextJob for job j, suspended at its first await.
NewExec ==
    [pc |-> "launch", browser |-> FALSE, closed |-> FALSE,
     viewport |-> NULL, waited |-> <<>>, err |-> NULL]

WithExec(j, e) == [k \in DOMAIN ex \cup {j} |-> IF k = j THEN e ELSE ex[k]]

WithoutExec(j) == [k \in DOMAIN ex \ {j} |-> ex[k]]

\* A gate that lets every tick through.
BusyGateOpen == FALSE

\* if (isProcessing) return;
BusyGate == isProcessing

\* A tick that arms no timer.
PollNever(tmr) == tmr

\* A tick that arms two timers.
PollTwice(tmr) == tmr + 2

\* setTimeout(processNextJob, 5000): one more poll timer pending.
PollAgain(tmr) == tmr + 1

\* processNextJob from its entry to its first await (or its return), called
\* with imm immediates and tmr timers pending.
ProcessNextJob(imm, tmr) ==
    IF BusyGate
    THEN /\ Settle(FALSE, isProcessing, ex, imm, tmr)
         /\ UNCHANGED <<jobs, now, audit>>
    ELSE \/ \* the SELECT throws
            /\ Settle(TRUE, isProcessing, ex, imm, tmr)
            /\ UNCHANGED <<jobs, now, audit>>
         \/ \* no job waiting: poll again in 5 s
            /\ NextWaiting = 0
            /\ Settle(FALSE, isProcessing, ex, imm, PollAgain(tmr))
            /\ UNCHANGED <<jobs, now, audit>>
         \/ \* a job is waiting: isProcessing = true, then the claiming UPDATE
            /\ NextWaiting # 0
            /\ LET j == NextWaiting IN
               \E t \in ClockReads :
                 /\ now' = t
                 /\ \/ /\ jobs' = [jobs EXCEPT ![j] = ClaimRow(jobs[j], t)]
                       /\ audit' = [audit EXCEPT ![j].invoked = @ + 1]
                       /\ Settle(FALSE, TRUE, WithExec(j, NewExec), imm, tmr)
                    \/ \* the UPDATE throws, outside the try block
                       /\ Settle(TRUE, TRUE, ex, imm, tmr)
                       /\ UNCHANGED <<jobs, audit>>

\* A failed migration that is logged, after which start-up goes on.
MigrationFailsDegraded ==
    /\ \E done \in {columns, columns \cup {"error"}} : columns' = done
    /\ ProcessNextJob(0, 0)

\* The migration of lines 48-68 throws (PRAGMA, or one of the two ALTER
\* TABLE statements): process.exit(1), before processNextJob() and listen.
MigrationFails ==
    /\ \E done \in {columns, columns \cup {"error"}} : columns' = done
    /\ escaped' = FALSE
    /\ UNCHANGED <<proc, mode, jobs, isProcessing, ex, immediates, timers,
                   now, audit, faulted, stale, accepted>>

\* node server.js: open jobs.db, create the table, add the error and success
\* columns, call processNextJob() and listen.
Start ==
    /\ proc = "down"
    /\ resp' = NoResp
    /\ \/ MigrationFails
       \/ /\ columns' = {"error", "success"}
          /\ ProcessNextJob(0, 0)

\* ---------------------------------------------------------- page executor
\* error.message of what the awaited puppeteer calls and the store throw.
MsgBrowser == "Protocol error: Target closed"
MsgGoto    == "Navigation timeout of 900000 ms exceeded"
MsgStore   == "SQLITE_BUSY: database is locked"

Ok == "ok"

Min(a, b) == IF a < b THEN a ELSE b

\* What page.evaluate may report as the width and as the height.
WidthValues == { [finite |-> FALSE, v |-> 0], [finite |-> TRUE, v |-> 800] }

HeightValues == { [finite |-> TRUE, v |-> 0], [finite |-> TRUE, v |-> 20000] }

\* A test that takes every finite number.
ValidDimFinite(d) == d.finite

\* Number.isFinite(d) && d > 0
ValidDim(d) == d.finite /\ d.v > 0

\* The viewport after lines 227-240, when setViewport succeeds.
Resized(viewport, w, h) ==
    IF ValidDim(w) /\ ValidDim(h)
    THEN << Min(w.v, MAX_VIEWPORT_WIDTH), Min(h.v, MAX_VIEWPORT_HEIGHT) >>
    ELSE viewport

Running(j, phase) == proc = "up" /\ j \in DOMAIN ex /\ ex[j].pc = phase

\* A step of the execution that only moves the suspended invocation on.
Advance(j, e) ==
    /\ ex' = WithExec(j, e)
    /\ resp' = NoResp
    /\ escaped' = FALSE
    /\ UNCHANGED <<proc, mode, columns, jobs, isProcessing, immediates, timers,
                   now, audit, faulted, stale, accepted>>

\* A finally block that schedules two ticks.
SetImmediateTwice(imm) == imm + 2

\* setImmediate(processNextJob) of the finally block: one more immediate
\* pending.
SetImmediate(imm) == imm + 1

\* catch block from line 272, then finally, lines 277-281: the failure UPDATE,
\* isProcessing = false, setImmediate(processNextJob).  `outcome` is what the
\* page executor itself reported for job j; t0 is the clock when the catch
\* block is entered.
FailureWrite(j, msg, outcome, t0) ==
    \E t \in ClockAfter(t0) :
      /\ now' = t
      /\ resp' = NoResp
      /\ UNCHANGED columns
      /\ \/ /\ jobs' = [jobs EXCEPT ![j] = FailureRow(jobs[j], t, msg)]
            /\ audit' = [audit EXCEPT ![j].written = @ + 1,
                                      ![j].outcome = <<outcome>>]
            /\ Settle(FALSE, FALSE, WithoutExec(j), SetImmediate(immediates), timers)
         \/ \* the failure UPDATE throws inside the catch block
            /\ jobs' = jobs
            /\ audit' = [audit EXCEPT ![j].outcome = <<outcome>>]
            /\ Settle(TRUE, FALSE, WithoutExec(j), SetImmediate(immediates), timers)

\* A catch block that goes to the failure write with the browser left open.
EnterCatchNoClose(j, msg) == FailureWrite(j, msg, msg, now)

\* catch block up to line 270: with a browser at hand, await browser.close().
EnterCatch(j, msg) ==
    Advance(j, [ex[j] EXCEPT !.pc = "catchClose", !.err = <<msg>>])

\* browser = await puppeteer.launch(...)
Launch(j) ==
    /\ Running(j, "launch")
    /\ \/ Advance(j, [ex[j] EXCEPT !.pc = "setup", !.browser = TRUE])
       \/ FailureWrite(j, MsgBrowser, MsgBrowser, now)

\* newPage, createCDPSession, Page.setDownloadBehavior, setViewport(1280x720),
\* overridePermissions (its failure is only logged), the page.on listeners.
Setup(j) ==
    /\ Running(j, "setup")
    /\ \/ Advance(j, [ex[j] EXCEPT
                        !.pc = "goto",
                        !.viewport = <<DEFAULT_VIEWPORT_WIDTH, DEFAULT_VIEWPORT_HEIGHT>>])
       \/ EnterCatch(j, MsgBrowser)

\* await page.goto(url, {waitUntil: 'networkidle0', timeout: PAGE_GOTO_TIMEOUT})
Goto(j) ==
    /\ Running(j, "goto")
    /\ \/ Advance(j, [ex[j] EXCEPT !.pc = "grace"])
       \/ EnterCatch(j, MsgGoto)

\* The page closes itself (window.close()): the 'close' listener sets
\* pageClosedByScript and page.isClosed() turns true.
PageCloses(j) ==
    /\ proc = "up"
    /\ j \in DOMAIN ex
    /\ ex[j].pc \in {"grace", "fallback"}
    /\ ~ex[j].closed
    /\ Advance(j, [ex[j] EXCEPT !.closed = TRUE])

\* The dialog listener of lines 148-152 is an async function of its own:
\* when its dialog.accept() rejects, nobody handles that promise.
DialogFails(j) ==
    /\ proc = "up"
    /\ j \in DOMAIN ex
    /\ ex[j].pc \in {"goto", "grace", "fallback"}
    /\ resp' = NoResp
    /\ escaped' = FALSE
    /\ UNCHANGED <<columns, jobs, now, audit>>
    /\ \E m \in RejectionModes :
         IF m = "throw"
         THEN Exit
         ELSE /\ mode' = m
              /\ UNCHANGED <<proc, isProcessing, ex, immediates, timers, faulted,
                             stale, accepted>>

\* A grace wait that is always followed by the fallback wait.
GraceThenFallback(j) ==
    /\ Running(j, "grace")
    /\ Advance(j, [ex[j] EXCEPT
                     !.waited = Append(@, WAIT_AFTER_NETWORKIDLE),
                     !.pc = "fallback"])

\* The setTimeout(resolve, WAIT_AFTER_NETWORKIDLE) of line 191 fires; then
\* lines 195-203 up to the next await.
Grace(j) ==
    /\ Running(j, "grace")
    /\ Advance(j, [ex[j] EXCEPT
                     !.waited = Append(@, WAIT_AFTER_NETWORKIDLE),
                     !.pc = IF ~ex[j].closed THEN "fallback" ELSE "close"])

\* The setTimeout(resolve, FALLBACK_WAIT_TIME) of line 198 fires; then
\* line 203 up to the next await.
Fallback(j) ==
    /\ Running(j, "fallback")
    /\ Advance(j, [ex[j] EXCEPT
                     !.waited = Append(@, FALLBACK_WAIT_TIME),
                     !.pc = IF ~ex[j].closed THEN "measure" ELSE "close"])

\* Lines 204-243: page.evaluate and page.setViewport; whatever they throw is
\* caught and logged, and the execution goes on to browser.close().
Measure(j) ==
    /\ Running(j, "measure")
    /\ \/ \* evaluate or setViewport rejects
          Advance(j, [ex[j] EXCEPT !.pc = "close"])
       \/ \E w \in WidthValues, h \in HeightValues :
            Advance(j, [ex[j] EXCEPT !.pc = "close",
                                     !.viewport = Resized(@, w, h)])

\* await browser.close() of line 250 and what follows it without an await:
\* the success UPDATE; when that throws, the catch block (browser is null by
\* then) with the failure UPDATE; finally.
Close(j) ==
    /\ Running(j, "close")
    /\ \/ \* browser.close() rejects: into the catch block with a browser
          EnterCatch(j, MsgBrowser)
       \/ \E t \in ClockReads :
            \/ /\ now' = t
               /\ jobs' = [jobs EXCEPT ![j] = SuccessRow(jobs[j], t)]
               /\ audit' = [audit EXCEPT ![j].written = @ + 1,
                                         ![j].outcome = <<Ok>>]
               /\ Settle(FALSE, FALSE, WithoutExec(j), SetImmediate(immediates), timers)
               /\ resp' = NoResp
               /\ UNCHANGED columns
            \/ \* the success UPDATE throws
               FailureWrite(j, MsgStore, Ok, t)

\* await browser.close() inside the catch block (its own failure is logged
\* and dropped), then the failure UPDATE and finally.
CatchClose(j) ==
    /\ Running(j, "catchClose")
    /\ FailureWrite(j, ex[j].err[1], ex[j].err[1], now)

\* ----------------------------------------------------------- event loop
\* A setImmediate(processNextJob) callback runs.
FireImmediate ==
    /\ proc = "up"
    /\ immediates > 0
    /\ ProcessNextJob(immediates - 1, timers)
    /\ resp' = NoResp
    /\ UNCHANGED columns

\* A setTimeout(processNextJob, 5000) callback runs.
FireTimer ==
    /\ proc = "up"
    /\ timers > 0
    /\ ProcessNextJob(immediates, timers - 1)
    /\ resp' = NoResp
    /\ UNCHANGED columns

\* ------------------------------------------------------------ HTTP layer
Respond(route, status, jobId, error) ==
    resp' = [route |-> route, status |-> status, jobId |-> jobId, error |-> error,
             rows |-> <<>>]

\* res.json({success: true, jobs | job}): status 200 with rows in the body.
RespondRows(route, rows) ==
    resp' = [route |-> route, status |-> 200, jobId |-> NULL, error |-> NULL,
             rows |-> rows]

NewAudit == [invoked |-> 0, written |-> 0, outcome |-> NULL]

\* An INSERT that stores the row and then fails.
InsertThrowsLate(url, t) ==
    /\ Respond("runPdf", 500, NULL, <<"Failed to add job to queue">>)
    /\ jobs' = Append(jobs, NewRow(url, t))
    /\ audit' = Append(audit, NewAudit)
    /\ UNCHANGED <<immediates, accepted>>

\* The INSERT throws: catch block of lines 334-342.
InsertThrows(url, t) ==
    /\ Respond("runPdf", 500, NULL, <<"Failed to add job to queue">>)
    /\ UNCHANGED <<jobs, audit, immediates, accepted>>

\* POST /runPdf
Enqueue(body) ==
    /\ proc = "up"
    /\ escaped' = FALSE
    /\ IF UrlMissing(body)
       THEN /\ Respond("runPdf", 400, NULL, <<"URL parameter is required">>)
            /\ UNCHANGED <<proc, mode, columns, jobs, isProcessing, ex, immediates,
                           timers, now, audit, faulted, stale, accepted>>
       ELSE IF ~URLParses(body.url)
       THEN /\ Respond("runPdf", 400, NULL, <<"Invalid URL format">>)
            /\ UNCHANGED <<proc, mode, columns, jobs, isProcessing, ex, immediates,
                           timers, now, audit, faulted, stale, accepted>>
       ELSE /\ Len(jobs) < MaxJobs
            /\ \E t \in ClockReads :
                 /\ now' = t
                 /\ UNCHANGED <<proc, mode, columns, isProcessing, ex, timers,
                                faulted, stale>>
                 /\ \/ /\ jobs' = Append(jobs, NewRow(body.url, t))
                       /\ audit' = Append(audit, NewAudit)
                       /\ immediates' = immediates + 1
                       /\ accepted' = accepted + 1
                       /\ Respond("runPdf", 200, <<AutoIncrement>>, NULL)
                    \/ InsertThrows(body.url, t)

\* ORDER BY id ASC.
QueueRowsAsc == jobs

\* SELECT * FROM jobs ORDER BY id DESC
QueueRows == [k \in 1..Len(jobs) |-> jobs[Len(jobs) + 1 - k]]

\* GET /queue
GetQueue ==
    /\ proc = "up"
    /\ escaped' = FALSE
    /\ UNCHANGED <<proc, mode, columns, jobs, isProcessing, ex, immediates,
                   timers, now, audit, faulted, stale, accepted>>
    /\ \/ RespondRows("queue", QueueRows)
       \/ \* the SELECT throws
          Respond("queue", 500, NULL, <<"Failed to fetch jobs">>)

\* SELECT * FROM jobs WHERE id = ?: the row in a sequence, <<>> for undefined.
JobById(n) ==
    IF \E j \in Ids : jobs[j].id = n
    THEN << jobs[CHOOSE j \in Ids : jobs[j].id = n] >>
    ELSE <<>>

\* A reply that does not test the lookup's result.
JobReplyUnchecked(found) == RespondRows("job", found)

\* if (!job) 404, else the job
JobReply(found) ==
    IF found = <<>>
    THEN Respond("job", 404, NULL, <<"Job not found">>)
    ELSE RespondRows("job", found)

\* GET /job/:id
GetJob(id) ==
    /\ proc = "up"
    /\ escaped' = FALSE
    /\ UNCHANGED <<proc, mode, columns, jobs, isProcessing, ex, immediates,
                   timers, now, audit, faulted, stale, accepted>>
    /\ LET jobId == ParsedId[id] IN
       IF jobId.nan
       THEN Respond("job", 400, NULL, <<"Invalid job ID">>)
       ELSE \/ JobReply(JobById(jobId.v))
            \/ \* the SELECT throws
               Respond("job", 500, NULL, <<"Failed to fetch job">>)

Next ==
    \/ Start
    \/ FireImmediate
    \/ FireTimer
    \/ \E body \in Bodies : Enqueue(body)
    \/ GetQueue
    \/ \E id \in IdStrings : GetJob(id)
    \/ \E j \in DOMAIN ex : Launch(j)
    \/ \E j \in DOMAIN ex : Setup(j)
    \/ \E j \in DOMAIN ex : Goto(j)
    \/ \E j \in DOMAIN ex : PageCloses(j)
    \/ \E j \in DOMAIN ex : DialogFails(j)
    \/ \E j \in DOMAIN ex : Grace(j)
    \/ \E j \in DOMAIN ex : Fallback(j)
    \/ \E j \in DOMAIN ex : Measure(j)
    \/ \E j \in DOMAIN ex : Close(j)
    \/ \E j \in DOMAIN ex : CatchClose(j)

Spec == Init /\ [][Next]_vars

\* ------------------------------------------------------------ properties
RunningIds == {j \in Ids : IsRunning(j)}

WaitingIds == {j \in Ids : IsWaiting(j)}

Range(f) == {f[k] : k \in DOMAIN f}

\* C1: in every reachable state at most one row of the jobs table is in
\* state Running.
C1_AtMostOneRunning == Cardinality(RunningIds) <= 1

\* C2: every step that takes a job from Waiting to Running takes the job
\* with the lowest id among the jobs Waiting before the step.
C2_ClaimsLowestWaiting ==
    [][\A j \in Ids :
         (IsWaiting(j) /\ jobs'[j].state = "Running")
            => \A i \in Ids : i < j => ~IsWaiting(i)]_vars

\* Job 2 was already Waiting when job 1 was claimed, and is Waiting still.
C2_Witness ==
    /\ Len(jobs) >= 2
    /\ IsRunning(1)
    /\ IsWaiting(2)
    /\ jobs[2].requestedAt[1] < jobs[1].startedAt[1]

\* C3: for jobs a and b with a.id < b.id, b has a startedAt only once a is
\* Executed.
C3_StartsAfterEarlierExecuted ==
    \A a \in Ids, b \in Ids :
        (a < b /\ jobs[b].startedAt # NULL) => IsExecuted(a)

\* C4: no row is removed, and a row's state changes only from Waiting to
\* Running and from Running to Executed.
C4_StateSteps ==
    [][/\ Len(jobs') >= Len(jobs)
       /\ \A j \in Ids :
            \/ jobs'[j].state = jobs[j].state
            \/ jobs[j].state = "Waiting" /\ jobs'[j].state = "Running"
            \/ jobs[j].state = "Running" /\ jobs'[j].state = "Executed"]_vars

\* Both kinds of step have been taken: one job is Executed, the next Running.
C4_Witness == Len(jobs) >= 2 /\ IsExecuted(1) /\ IsRunning(2)

\* C5: a job is Running only while the invocation of processNextJob that
\* claimed it is still in progress, so that its end (on any path) leaves the
\* job Executed; a Running row with no invocation left is never written again.
C5_RunningIsExecuting ==
    \A j \in Ids : (proc = "up" /\ IsRunning(j)) => j \in DOMAIN ex

\* C6: while a job is Waiting in a running process, the worker is executing
\* a job (whose end schedules a tick) or is idle with a tick pending, so that
\* the Waiting job gets claimed.
C6_WaitingIsServed ==
    (proc = "up" /\ WaitingIds # {}) =>
        \/ isProcessing /\ DOMAIN ex # {}
        \/ ~isProcessing /\ immediates + timers > 0

\* C7: the step in which an execution ends with a failure of the page
\* executor leaves the process running with the busy flag clear and one more
\* tick pending, and no error leaves processNextJob in it.
C7_FailureIsContained ==
    [][\A j \in DOMAIN ex :
         (j \notin DOMAIN ex' /\ audit'[j].outcome \notin {NULL, <<Ok>>})
            => /\ proc' = "up"
               /\ ~isProcessing'
               /\ immediates' = immediates + 1
               /\ ~escaped']_vars

\* C8: once the execution of a job has ended, its row is Executed with
\* finishedAt set and one result written: success = 1 and error NULL when the
\* page executor succeeded, success = 0 and an error text holding the failure
\* message when it failed.
C8_ResultMatchesOutcome ==
    \A j \in Ids :
        (audit[j].outcome # NULL) =>
            /\ IsExecuted(j)
            /\ jobs[j].finishedAt # NULL
            /\ audit[j].written = 1
            /\ IF audit[j].outcome = <<Ok>>
               THEN jobs[j].success = 1 /\ jobs[j].error = NULL
               ELSE /\ jobs[j].success = 0
                    /\ audit[j].outcome[1] \in Range(jobs[j].error)

\* C9: the page executor is invoked at most once for a job, and a job that
\* is Executed with success = 0 has no invocation in progress.
C9_NoRetry ==
    \A j \in Ids :
        /\ audit[j].invoked <= 1
        /\ (IsExecuted(j) /\ jobs[j].success = 0)
              => (j \notin DOMAIN ex /\ audit[j].invoked = 1)

\* Job 1 failed, and the tick after it claimed job 2.
C9_Witness ==
    /\ Len(jobs) >= 2
    /\ IsExecuted(1)
    /\ jobs[1].success = 0
    /\ IsRunning(2)

\* Request bodies that carry no URL or one that new URL() rejects.
InvalidBodies ==
    { [present |-> FALSE, url |-> <<>>] } \cup
    { [present |-> TRUE, url |-> u] :
        u \in { <<>>, UrlNotAUrl, UrlNoHost, UrlRelative } }

\* C10: a POST /runPdf whose url is missing, empty or unparseable is answered
\* 400 with no job id and leaves the jobs table as it was.
C10_InvalidUrlRejected ==
    [][\A body \in InvalidBodies :
         Enqueue(body) =>
            /\ resp'.status = 400
            /\ resp'.jobId = NULL
            /\ jobs' = jobs]_vars

\* "not a url" has just been refused while the table holds a row.
C10_Witness ==
    /\ resp.route = "runPdf"
    /\ resp.status = 400
    /\ resp.error = <<"Invalid URL format">>
    /\ jobs # <<>>

\* An accepted POST /runPdf: the step of Enqueue that answers 200.
Accepted(body) ==
    resp'.route = "runPdf" /\ resp'.status = 200 /\ Enqueue(body)

\* C11: every accepted enqueue appends exactly one row, whose id is greater
\* than every id in the table before it and is the jobId of the response;
\* the ids of the table are pairwise different and no row's id ever changes.
C11_IdsIncrease ==
    [][/\ \A body \in Bodies :
            Accepted(body) =>
               /\ Len(jobs') = Len(jobs) + 1
               /\ \A k \in Ids :
                     jobs'[k] = jobs[k] /\ jobs[k].id < jobs'[Len(jobs')].id
               /\ resp'.jobId = << jobs'[Len(jobs')].id >>
       /\ \A a \in 1..Len(jobs'), b \in 1..Len(jobs') :
            a # b => jobs'[a].id # jobs'[b].id
       /\ \A k \in Ids : k <= Len(jobs') /\ jobs'[k].id = jobs[k].id]_vars

\* The second accepted enqueue has just been answered with jobId 2.
C11_Witness ==
    /\ Len(jobs) = 2
    /\ resp.route = "runPdf"
    /\ resp.status = 200
    /\ resp.jobId = <<2>>
    /\ jobs[2].id = 2
    /\ jobs[1].id = 1

\* C12: a row is inserted Waiting with startedAt NULL and stays so until the
\* step of a worker tick that claims it, which makes it Running with
\* startedAt set and starts its execution; a GET /queue answered 200 shows
\* every row as the table holds it.
C12_WaitingUntilClaimed ==
    [][/\ \A j \in 1..Len(jobs') :
            j \notin Ids => jobs'[j].state = "Waiting" /\ jobs'[j].startedAt = NULL
       /\ \A j \in Ids :
            (IsWaiting(j) /\ j <= Len(jobs')) =>
               \/ jobs'[j].state = "Waiting" /\ jobs'[j].startedAt = NULL
               \/ /\ jobs'[j].state = "Running"
                  /\ jobs'[j].startedAt # NULL
                  /\ j \in DOMAIN ex' /\ j \notin DOMAIN ex
                  /\ isProcessing'
       /\ (resp'.route = "queue" /\ resp'.status = 200) =>
            \A j \in 1..Len(jobs') : jobs'[j] \in Range(resp'.rows)]_vars

\* GET /queue has just shown job 1 Running with startedAt set and job 2
\* Waiting with startedAt NULL.
C12_Witness ==
    /\ resp.route = "queue"
    /\ resp.status = 200
    /\ \E a \in DOMAIN resp.rows, b \in DOMAIN resp.rows :
         /\ resp.rows[a].id = 1
         /\ resp.rows[a].state = "Running"
         /\ resp.rows[a].startedAt # NULL
         /\ resp.rows[b].id = 2
         /\ resp.rows[b].state = "Waiting"
         /\ resp.rows[b].startedAt = NULL

\* C13: in every reachable state a row's startedAt is NULL exactly when the
\* row is Waiting and its finishedAt is set exactly when the row is Executed;
\* startedAt has been written once if it is set and never otherwise, and
\* likewise finishedAt.
C13_StampsSetOnce ==
    \A j \in Ids :
        /\ (jobs[j].startedAt = NULL) <=> IsWaiting(j)
        /\ (jobs[j].finishedAt # NULL) <=> IsExecuted(j)
        /\ audit[j].invoked = (IF jobs[j].startedAt # NULL THEN 1 ELSE 0)
        /\ audit[j].written = (IF jobs[j].finishedAt # NULL THEN 1 ELSE 0)

\* Job 1 has both timestamps, job 2 only startedAt, while a tick is pending.
C13_Witness ==
    /\ Len(jobs) >= 2
    /\ IsExecuted(1)
    /\ jobs[1].startedAt # NULL /\ jobs[1].finishedAt # NULL
    /\ IsRunning(2)
    /\ jobs[2].startedAt # NULL /\ jobs[2].finishedAt = NULL
    /\ immediates > 0

\* C14: for every row, requestedAt <= startedAt <= finishedAt over the fields
\* that are set.
C14_StampsOrdered ==
    \A j \in Ids :
        LET r == jobs[j] IN
        /\ r.requestedAt # NULL
        /\ r.startedAt # NULL => r.requestedAt[1] <= r.startedAt[1]
        /\ r.finishedAt # NULL =>
              /\ r.requestedAt[1] <= r.finishedAt[1]
              /\ r.startedAt # NULL => r.startedAt[1] <= r.finishedAt[1]

\* A job was claimed after the clock had moved on from its enqueue, and has
\* finished with success.
C14_Witness ==
    \E j \in Ids :
        /\ IsExecuted(j)
        /\ jobs[j].success = 1
        /\ jobs[j].requestedAt[1] < jobs[j].startedAt[1]
        /\ jobs[j].startedAt[1] <= jobs[j].finishedAt[1]

\* C15: no step changes the id, the url or the requestedAt of a row; the row
\* of an accepted enqueue holds the url of the request, and a GET /job/:id
\* answered 200 returns one row, as the table holds it under that id.
C15_IdentityFrozen ==
    [][/\ \A j \in Ids :
            /\ j <= Len(jobs')
            /\ jobs'[j].id = jobs[j].id
            /\ jobs'[j].url = jobs[j].url
            /\ jobs'[j].requestedAt = jobs[j].requestedAt
       /\ \A body \in Bodies :
            Accepted(body) => jobs'[Len(jobs')].url = body.url
       /\ (resp'.route = "job" /\ resp'.status = 200) =>
            /\ Len(resp'.rows) = 1
            /\ resp'.rows[1].id \in 1..Len(jobs')
            /\ resp'.rows[1] = jobs'[resp'.rows[1].id]]_vars

\* GET /job/1 has just returned job 1, Executed after a failure at a later
\* clock value than its enqueue, with the url it was enqueued with.
C15_Witness ==
    /\ resp.route = "job"
    /\ resp.status = 200
    /\ resp.rows[1].id = 1
    /\ resp.rows[1].state = "Executed"
    /\ resp.rows[1].success = 0
    /\ resp.rows[1].url = UrlExample
    /\ resp.rows[1].requestedAt[1] < resp.rows[1].finishedAt[1]

\* C16: in every reachable state a row has an error only if it is Executed
\* with success = 0, has success = 1 only if it is Executed, and while it is
\* Waiting or Running has success = 0 and error NULL.
C16_ResultOnlyWhenExecuted ==
    \A j \in Ids :
        /\ jobs[j].error # NULL => (IsExecuted(j) /\ jobs[j].success = 0)
        /\ jobs[j].success = 1 => IsExecuted(j)
        /\ jobs[j].success \in {0, 1}
        /\ (IsWaiting(j) \/ IsRunning(j)) =>
              (jobs[j].success = 0 /\ jobs[j].error = NULL)

\* Job 1 failed and holds an error text; job 2 succeeded and holds none.
C16_Witness ==
    /\ Len(jobs) >= 2
    /\ IsExecuted(1) /\ jobs[1].success = 0 /\ jobs[1].error # NULL
    /\ IsExecuted(2) /\ jobs[2].success = 1 /\ jobs[2].error = NULL

\* C17: a POST /runPdf with a valid url whose INSERT throws is answered 500
\* with no job id, adds no row and leaves the process, the busy flag, the
\* executions and the pending ticks as they were; whenever such an answer has
\* just been given, a further POST /runPdf can be accepted.
C17_InsertFailureNonFatal ==
    /\ [][(resp'.route = "runPdf" /\ resp'.status = 500) =>
            /\ resp'.jobId = NULL
            /\ jobs' = jobs
            /\ proc = "up" /\ proc' = "up"
            /\ UNCHANGED <<isProcessing, ex, immediates, timers, mode>>]_vars
    /\ []((resp.route = "runPdf" /\ resp.status = 500) =>
            ENABLED (\E body \in Bodies : Enqueue(body) /\ resp'.status = 200))

\* An enqueue has just failed with 500 while a job is being executed and
\* another one is waiting.
C17_Witness ==
    /\ resp.route = "runPdf"
    /\ resp.status = 500
    /\ resp.error = <<"Failed to add job to queue">>
    /\ DOMAIN ex # {}
    /\ Len(jobs) = 1

\* An id string made of decimal digits only.
IsNumeric(id) == id # <<>> /\ \A k \in 1..Len(id) : id[k] \in Digit

NumericIds == {id \in IdStrings : IsNumeric(id)}

\* The numeric id strings that no row of the table has as its id.
MissingIds == {id \in NumericIds : \A j \in Ids : jobs[j].id # ParsedId[id].v}

\* C18 as stated: GET /job/:id for a numeric id that no row has is answered
\* 404, with no job, and leaves the jobs table unchanged.
C18_MissingIdIs404 ==
    [][resp'.route = "job" =>
         \A id \in MissingIds :
            GetJob(id) =>
               /\ resp'.status = 404
               /\ resp'.rows = <<>>
               /\ jobs' = jobs]_vars

\* C18 as amended: GET /job/:id for a numeric id that no row has is answered
\* 404 "Job not found", or 500 "Failed to fetch job" when the lookup itself
\* throws; it never returns a job and leaves the jobs table unchanged.
C18_MissingIdIs404OrStoreFailure ==
    [][resp'.route = "job" =>
         \A id \in MissingIds :
            GetJob(id) =>
               /\ \/ resp'.status = 404 /\ resp'.error = <<"Job not found">>
                  \/ resp'.status = 500 /\ resp'.error = <<"Failed to fetch job">>
               /\ resp'.rows = <<>>
               /\ jobs' = jobs]_vars

\* A lookup of an id that no row has was just answered 404 while the table
\* holds two rows.
C18_Witness ==
    /\ resp.route = "job"
    /\ resp.status = 404
    /\ resp.error = <<"Job not found">>
    /\ Len(jobs) = 2

\* C19: GET /job/:id for an id string that is not numeric is answered 400
\* and returns no job.
C19_NonNumericIdIs400 ==
    [][resp'.route = "job" =>
         \A id \in IdStrings \ NumericIds :
            GetJob(id) =>
               /\ resp'.status = 400
               /\ resp'.rows = <<>>]_vars

WithBrowser == {j \in DOMAIN ex : ex[j].browser}

\* C21: in every reachable state at most one invocation of processNextJob is
\* executing a job, it executes only while the busy flag is set, its job is
\* the only one it works on, and at most one browser is held, by it.
C21_SingleExecution ==
    /\ Cardinality(DOMAIN ex) <= 1
    /\ DOMAIN ex # {} => isProcessing
    /\ \A j \in DOMAIN ex : j \in Ids /\ audit[j].invoked = 1
    /\ Cardinality(WithBrowser) <= 1

\* Job 1 is executing with its browser launched while job 2 is Waiting and
\* the tick of its enqueue is pending.
C21_Witness ==
    /\ DOMAIN ex = {1}
    /\ ex[1].browser
    /\ IsWaiting(2)
    /\ immediates > 0

\* C22: a tick that runs while the busy flag is set, be it an immediate or a
\* poll timer, changes no row, leaves the flag set and the execution as it
\* is, and schedules nothing: only the tick itself is gone.
C22_BusyTickIsNoOp ==
    [][isProcessing =>
         /\ FireImmediate =>
               /\ jobs' = jobs /\ isProcessing' /\ ex' = ex
               /\ immediates' = immediates - 1 /\ timers' = timers
               /\ proc' = "up" /\ ~escaped'
         /\ FireTimer =>
               /\ jobs' = jobs /\ isProcessing' /\ ex' = ex
               /\ timers' = timers - 1 /\ immediates' = immediates
               /\ proc' = "up" /\ ~escaped']_vars

\* The worker is busy with job 1, job 2 is Waiting, and the tick of job 2's
\* enqueue has run: no tick is pending any more.
C22_Witness ==
    /\ isProcessing
    /\ DOMAIN ex = {1}
    /\ IsWaiting(2)
    /\ immediates = 0
    /\ timers = 0

\* C23: a tick that runs while the busy flag is clear and whose SELECT finds
\* no Waiting job changes no row, leaves the flag clear and leaves exactly
\* one more poll timer pending than the other ticks that were pending.
C23_IdleTickPollsOnce ==
    [][(~isProcessing /\ WaitingIds = {} /\ ~escaped') =>
         /\ FireImmediate =>
               /\ jobs' = jobs /\ ~isProcessing' /\ ex' = ex
               /\ immediates' = immediates - 1 /\ timers' = timers + 1
         /\ FireTimer =>
               /\ jobs' = jobs /\ ~isProcessing' /\ ex' = ex
               /\ immediates' = immediates /\ timers' = (timers - 1) + 1
         /\ Start =>
               /\ jobs' = jobs /\ ~isProcessing' /\ ex' = ex
               /\ (proc' = "up" => immediates' = 0 /\ timers' = 1)]_vars

\* Job 1 is Executed and the tick after it found nothing to do: one poll
\* timer is pending and nothing else.
C23_Witness ==
    /\ proc = "up"
    /\ Len(jobs) = 1
    /\ IsExecuted(1)
    /\ ~isProcessing
    /\ immediates = 0
    /\ timers = 1

\* C24: the step that records job j as Executed, or clears the busy flag of
\* a running process, for an execution that holds a launched browser begins
\* with an awaited browser.close(); and the step that begins with the
\* browser.close() of the catch block ends the execution with the row
\* Executed with success = 0 and an error text, whether or not that close
\* rejects, unless the failure UPDATE itself throws.
C24_TeardownBeforeResult ==
    [][\A j \in DOMAIN ex :
         /\ (/\ ex[j].browser
             /\ j \notin DOMAIN ex'
             /\ \/ jobs'[j].state = "Executed"
                \/ proc' = "up" /\ ~isProcessing')
               => ex[j].pc \in {"close", "catchClose"}
         /\ (ex[j].pc = "catchClose" /\ (j \notin DOMAIN ex' \/ ex'[j] # ex[j]))
               => /\ j \notin DOMAIN ex'
                  /\ \/ escaped'
                     \/ /\ jobs'[j].state = "Executed"
                        /\ jobs'[j].success = 0
                        /\ jobs'[j].error = ErrorText(ex[j].err[1])]_vars

\* Job 1 failed in page.goto, which runs only with a browser launched, and
\* is recorded as a failure; the worker is idle again.
C24_Witness ==
    /\ IsExecuted(1)
    /\ jobs[1].success = 0
    /\ jobs[1].error = ErrorText(MsgGoto)
    /\ ~isProcessing
    /\ proc = "up"

\* C25: a start-up leaves a running process only with both the error and
\* the success column in place; a start-up that ends with no process running
\* (the migration failed) has claimed no job, changed no row, scheduled no
\* tick and served no request, and no request is served while no process
\* runs.
C25_MigrationFailureAborts ==
    [][proc = "down" =>
         /\ proc' = "up" => columns' = {"error", "success"}
         /\ proc' = "down" =>
               /\ jobs' = jobs
               /\ audit' = audit
               /\ ex' = NoExec
               /\ ~isProcessing'
               /\ immediates' = 0 /\ timers' = 0
               /\ resp' = NoResp]_vars

\* A start-up added the error column, failed on the success column and
\* ended: no process runs.
C25_Witness ==
    /\ proc = "down"
    /\ columns = {"error"}
    /\ jobs = <<>>
    /\ timers = 0 /\ immediates = 0

\* C26: the success write happens only in the step after browser.close(),
\* reached through page.goto, then the grace wait, then, exactly when the page
\* had not closed itself by the end of the grace wait, the fallback wait; an
\* execution whose page has closed itself goes from the wait it is in to
\* browser.close() with its viewport untouched, and only an execution whose
\* page is open measures the content.
C26_WaitsBeforeSuccess ==
    [][\A j \in DOMAIN ex :
         LET e == ex[j] IN
         /\ (jobs'[j].success = 1 /\ jobs[j].success = 0) =>
               /\ e.pc = "close"
               /\ e.waited \in { <<WAIT_AFTER_NETWORKIDLE>>,
                                  <<WAIT_AFTER_NETWORKIDLE, FALLBACK_WAIT_TIME>> }
               /\ ~e.closed => Len(e.waited) = 2
               /\ jobs'[j].state = "Executed"
         /\ (j \in DOMAIN ex' /\ ex'[j].pc # e.pc /\ ex'[j].pc # "catchClose") =>
               LET f == ex'[j] IN
               /\ f.pc = "grace" => (e.pc = "goto" /\ f.waited = <<>>)
               /\ f.pc = "fallback" =>
                     /\ e.pc = "grace" /\ ~e.closed
                     /\ f.waited = <<WAIT_AFTER_NETWORKIDLE>>
               /\ f.pc = "measure" =>
                     /\ e.pc = "fallback" /\ ~e.closed
                     /\ f.waited = <<WAIT_AFTER_NETWORKIDLE, FALLBACK_WAIT_TIME>>
               /\ f.pc = "close" =>
                     \/ e.pc = "measure" /\ ~e.closed
                     \/ /\ e.pc = "grace" /\ e.closed
                        /\ f.waited = <<WAIT_AFTER_NETWORKIDLE>>
                        /\ f.viewport = e.viewport
                     \/ /\ e.pc = "fallback" /\ e.closed
                        /\ f.viewport = e.viewport]_vars

\* Job 1 has been recorded as a success; the page of job 2 closed itself
\* during the grace wait and the execution is at browser.close() with the
\* grace wait alone behind it.
C26_Witness ==
    /\ IsExecuted(1)
    /\ jobs[1].success = 1
    /\ 2 \in DOMAIN ex
    /\ ex[2].pc = "close"
    /\ ex[2].closed
    /\ ex[2].waited = <<WAIT_AFTER_NETWORKIDLE>>

\* A size that is finite and positive in both dimensions.
Measurable(w, h) == w.finite /\ w.v > 0 /\ h.finite /\ h.v > 0

\* C27: the measuring step always goes on to browser.close(), never to the
\* catch block: the viewport is then the one before, or, for a measured
\* size that is finite and positive, that size clamped to the maximum; a
\* size that is not is never applied; and the result recorded after
\* browser.close() is state Executed, success = 1 and error NULL, or, when the
\* success UPDATE itself throws, the failure with the store's message.
C27_MeasurementTolerated ==
    [][\A j \in DOMAIN ex :
         /\ (ex[j].pc = "measure" /\ j \in DOMAIN ex' /\ ex'[j] # ex[j]) =>
               /\ ex'[j].pc = "close"
               /\ ex'[j].err = NULL
               /\ \/ ex'[j].viewport = ex[j].viewport
                  \/ \E w \in WidthValues, h \in HeightValues :
                       /\ Measurable(w, h)
                       /\ ex'[j].viewport =
                             << Min(w.v, MAX_VIEWPORT_WIDTH),
                                Min(h.v, MAX_VIEWPORT_HEIGHT) >>
         /\ (ex[j].pc = "close" /\ jobs'[j].state = "Executed") =>
               \/ jobs'[j].success = 1 /\ jobs'[j].error = NULL
               \/ jobs'[j].success = 0 /\ jobs'[j].error = ErrorText(MsgStore)]_vars

\* Job 1 is recorded as a success with no error; job 2 went through the
\* measuring step with its page open, kept the viewport it had, and is at
\* browser.close().
C27_Witness ==
    /\ IsExecuted(1)
    /\ jobs[1].success = 1
    /\ jobs[1].error = NULL
    /\ 2 \in DOMAIN ex
    /\ ex[2].pc = "close"
    /\ ~ex[2].closed
    /\ Len(ex[2].waited) = 2
    /\ ex[2].viewport = <<DEFAULT_VIEWPORT_WIDTH, DEFAULT_VIEWPORT_HEIGHT>>

\* C28: in a process run that began with no Running row in the table and in
\* which no store call of the worker has thrown, the busy flag is set exactly
\* when some row is Running, in every state in which the event loop has
\* control.
C28_BusyIffRunning ==
    (proc = "up" /\ ~faulted /\ stale = {}) =>
        (isProcessing <=> RunningIds # {})

\* In such a run job 1 is Executed, job 2 is Running and the flag is set.
C28_Witness ==
    /\ proc = "up" /\ ~faulted /\ stale = {}
    /\ IsExecuted(1)
    /\ IsRunning(2)
    /\ isProcessing

\* C29: the step that starts an execution starts it for a row that was
\* Waiting; and in a run that began over rows left Running by an earlier
\* run, no step changes such a row or starts an execution for it: it stays
\* Running with finishedAt NULL.
C29_StaleRunningUntouched ==
    [][/\ \A j \in DOMAIN ex' : j \notin DOMAIN ex => IsWaiting(j)
       /\ \A j \in Ids : jobs'[j] # jobs[j] => jobs[j].state # "Executed"
       /\ proc = "up" =>
            \A j \in stale :
               /\ jobs[j].state = "Running"
               /\ jobs[j].finishedAt = NULL
               /\ jobs'[j] = jobs[j]
               /\ j \notin DOMAIN ex']_vars

\* Job 1 was Running when this run began and still is, with no execution;
\* the run has claimed job 2, which is Executed.
C29_Witness ==
    /\ proc = "up"
    /\ stale = {1}
    /\ IsRunning(1)
    /\ jobs[1].finishedAt = NULL
    /\ 1 \notin DOMAIN ex
    /\ IsExecuted(2)

\* C30: in every state of a running process in which no store call of the
\* worker has thrown, the busy flag is set with an execution in progress or
\* at least one tick (immediate or poll timer) is pending; and right after an
\* accepted enqueue a tick is pending.
C30_LoopAlive ==
    /\ (proc = "up" /\ ~faulted) =>
          \/ isProcessing /\ DOMAIN ex # {}
          \/ immediates + timers > 0
    /\ (resp.route = "runPdf" /\ resp.status = 200) => immediates > 0

\* Both jobs are Executed and the worker is idle on its poll timer alone.
C30_Witness ==
    /\ proc = "up" /\ ~faulted
    /\ IsExecuted(1)
    /\ IsExecuted(2)
    /\ ~isProcessing
    /\ immediates = 0
    /\ timers = 1

\* The ticks that are pending: immediates and poll timers.
PendingTicks == immediates + timers

\* The pending ticks, plus one when the busy flag is set.
TickLoad == PendingTicks + (IF isProcessing THEN 1 ELSE 0)

\* C31: the pending ticks (poll timers plus immediates), plus one when the
\* worker is busy, never exceed 1 + the enqueues this process run has
\* accepted; a tick that runs to its end while the flag is set is dropped, one
\* that runs while the flag is clear and finds no Waiting job is replaced by
\* exactly one poll timer, one that claims a job turns into the busy flag;
\* and the step that ends an execution and leaves the process running clears
\* the flag and adds exactly one immediate.
C31_TicksBounded ==
    /\ [](TickLoad <= 1 + accepted)
    /\ [][/\ ((FireImmediate \/ FireTimer) /\ ~escaped') =>
               IF isProcessing
               THEN /\ isProcessing'
                    /\ PendingTicks' = PendingTicks - 1
                    /\ (FireImmediate => timers' = timers)
                    /\ (FireTimer => immediates' = immediates)
               ELSE IF WaitingIds = {}
               THEN /\ ~isProcessing'
                    /\ PendingTicks' = PendingTicks
                    /\ (FireImmediate => timers' = timers + 1)
                    /\ (FireTimer => immediates' = immediates /\ timers' = timers)
               ELSE /\ isProcessing'
                    /\ PendingTicks' = PendingTicks - 1
                    /\ TickLoad' = TickLoad
                    /\ DOMAIN ex' = {NextWaiting}
           /\ \A j \in DOMAIN ex :
                (j \notin DOMAIN ex' /\ proc' = "up") =>
                    /\ ~isProcessing'
                    /\ immediates' = immediates + 1
                    /\ timers' = timers
                    /\ TickLoad' = TickLoad
                    /\ accepted' = accepted]_vars

\* The run accepted two enqueues after its start-up tick had armed the poll
\* timer; job 1 was claimed and has ended, job 2 is Waiting: the poll timer,
\* the immediate of the second enqueue and the immediate of the job's end are
\* pending, which is the bound.
C31_Witness ==
    /\ proc = "up"
    /\ accepted = 2
    /\ IsExecuted(1)
    /\ IsWaiting(2)
    /\ ~isProcessing
    /\ timers = 1
    /\ immediates = 2
    /\ TickLoad = 1 + accepted

====
